---- MODULE Spec2Model ----
(***************************************************************************)
(* AVL tree with string keys (AVLTree_StringKeys.c).  The heap is an array *)
(* of node structs indexed by node address; address 0 is NULL.  Every      *)
(* public function is one action; the internal subroutines are operators   *)
(* that map a heap to the heap they leave behind.  A call that runs into   *)
(* undefined behaviour (a read through NULL or through a freed node) sets  *)
(* fault and the run stops there: nothing is known of the program after.   *)
(* Memory handed to free() is recorded as Blank, its content is not read.  *)
(***************************************************************************)
EXTENDS Integers, Sequences, FiniteSets, Bags, TLC

\* ------------------------------------------------------------------ bounds
\* Number of node addresses the allocator can hand out.
MaxCap == 6
\* Largest capacity (tree->maxNodes) a caller sets under Spec.
MaxNodes == 4
\* Number of nodes created over a run of Spec (payloads are 1..MaxInserts).
MaxInserts == 4
\* Number of nodes created over a run of SpecLong.
LongInserts == 7

\* --------------------------------------------------------------- constants
NULL == 0
DELETE_FREE_DATA == 1
DELETE_FREE_KEYS == 2
SEARCH_DATA == 4
SEARCH_KEYS == 8
SEARCH_NODES == 16

NodeIds == 1 .. MaxCap
\* Keys are NUL-terminated byte strings; "a", "ab", "b" as byte sequences.
Keys == { <<1>>, <<1, 2>>, <<2>> }
\* The absent key reference.
NULLKEY == << >>
\* Valid option words handed to strDelete under Spec: DELETE_FREE_DATA alone
\* and DELETE_FREE_KEYS alone (SpecLong passes 0).
DeleteOpts == { DELETE_FREE_DATA, DELETE_FREE_KEYS }
\* Calls of strInsert: <<tree is a container, key, malloc succeeds>>.
InsertArgs ==
  ({TRUE} \X Keys \X BOOLEAN) \cup { <<FALSE, <<1>>, TRUE>>, <<TRUE, NULLKEY, TRUE>> }
\* Calls of strDelete: <<tree is a container, key, opts>>; a negative option
\* word, an absent key and an absent container are rejected.
DeleteArgs ==
  ({TRUE} \X Keys \X DeleteOpts)
    \cup { <<TRUE, <<1>>, -1>>, <<FALSE, <<1>>, 0>>, <<TRUE, NULLKEY, 0>> }

VARIABLES
  root,        \* tree->_root
  nodesCount,  \* tree->nodesCount
  maxNodes,    \* tree->maxNodes
  mem,         \* heap: node address -> AVLStrNode
  live,        \* addresses allocated and not yet freed
  nextData,    \* next payload the caller will supply
  last,        \* the last public call: its name and its return value
  freed,       \* what the last strDelete handed to free()
  fault        \* "none", or the undefined behaviour the last call ran into

vars == << root, nodesCount, maxNodes, mem, live, nextData, last, freed, fault >>

\* ------------------------------------------------------------------ strcmp
\* Byte i of a NUL-terminated string (1-based); 0 past the end.
CharAt(s, i) == IF i <= Len(s) THEN s[i] ELSE 0

RECURSIVE strcmpFrom(_, _, _)
strcmpFrom(s1, s2, i) ==
  IF CharAt(s1, i) # CharAt(s2, i) THEN CharAt(s1, i) - CharAt(s2, i)
  ELSE IF CharAt(s1, i) = 0 THEN 0
  ELSE strcmpFrom(s1, s2, i + 1)

strcmp(s1, s2) == strcmpFrom(s1, s2, 1)

MAX(X, Y) == IF X <= Y THEN Y ELSE X

abs(x) == IF x < 0 THEN -x ELSE x

\* ------------------------------------------------------- node subroutines
\* Faulty variant: the new node does not take the caller's data.
_createStrNode_noData(newKey, newData) ==
  [ father |-> NULL, leftSon |-> NULL, rightSon |-> NULL,
    key |-> newKey, data |-> 0, height |-> 0 ]

\* A node as _createStrNode leaves it.
_createStrNode(newKey, newData) ==
  [ father |-> NULL, leftSon |-> NULL, rightSon |-> NULL,
    key |-> newKey, data |-> newData, height |-> 0 ]

_strInsertAsLeftSubtree(h, father, newSon) ==
  LET h1 == IF newSon # NULL THEN [h EXCEPT ![newSon].father = father] ELSE h
  IN  [h1 EXCEPT ![father].leftSon = newSon]

_strInsertAsRightSubtree(h, father, newSon) ==
  LET h1 == IF newSon # NULL THEN [h EXCEPT ![newSon].father = father] ELSE h
  IN  [h1 EXCEPT ![father].rightSon = newSon]

\* Heap after _strCutLeftSubtree(father); the function returns h[father].leftSon.
_strCutLeftSubtree(h, father) ==
  LET son == h[father].leftSon
  IN  IF son = NULL THEN h
      ELSE [h EXCEPT ![son].father = NULL, ![father].leftSon = NULL]

\* Heap after _strCutRightSubtree(father); returns h[father].rightSon.
_strCutRightSubtree(h, father) ==
  LET son == h[father].rightSon
  IN  IF son = NULL THEN h
      ELSE [h EXCEPT ![son].father = NULL, ![father].rightSon = NULL]

\* Heap after _strCutSubtree(node); the function returns node in every branch.
_strCutSubtree(h, node) ==
  IF node = NULL THEN h
  ELSE IF h[node].father = NULL THEN h
  ELSE LET father == h[node].father
       IN  IF h[node].leftSon = NULL /\ h[node].rightSon = NULL
           THEN LET h1 == IF h[father].rightSon = node
                          THEN [h EXCEPT ![father].rightSon = NULL]
                          ELSE [h EXCEPT ![father].leftSon = NULL]
                IN  [h1 EXCEPT ![node].father = NULL]
           ELSE IF h[father].leftSon = node THEN _strCutLeftSubtree(h, father)
           ELSE _strCutRightSubtree(h, father)

RECURSIVE _strMaxKeySon(_, _)
_strMaxKeySon(h, node) ==
  IF h[node].rightSon # NULL THEN _strMaxKeySon(h, h[node].rightSon) ELSE node

\* The loop of _searchStrNode, from curr downwards.
RECURSIVE searchFrom(_, _, _)
searchFrom(h, curr, k) ==
  IF curr = NULL THEN NULL
  ELSE LET comp == strcmp(h[curr].key, k)
       IN  IF comp > 0 THEN searchFrom(h, h[curr].leftSon, k)
           ELSE IF comp < 0 THEN searchFrom(h, h[curr].rightSon, k)
           ELSE curr

_searchStrNode(h, r, k) == IF r = NULL THEN NULL ELSE searchFrom(h, r, k)

_strHeight(h, node) == IF node = NULL THEN -1 ELSE h[node].height

_strSetHeight(h, node, newHeight) ==
  IF node # NULL THEN [h EXCEPT ![node].height = newHeight] ELSE h

_strBalanceFactor(h, node) ==
  IF node = NULL THEN 0
  ELSE _strHeight(h, h[node].leftSon) - _strHeight(h, h[node].rightSon)

\* Faulty variant: the cached height is left as it is.
_strUpdateHeight_none(h, node) == h

_strUpdateHeight(h, node) ==
  IF node # NULL
  THEN _strSetHeight(h, node, MAX(_strHeight(h, h[node].leftSon),
                                  _strHeight(h, h[node].rightSon)) + 1)
  ELSE h

\* Faulty variant: nothing is exchanged.
_strSwapInfo_none(h, node1, node2) == h

\* Faulty variant: only the data pointers are exchanged.
_strSwapInfo_dataOnly(h, node1, node2) ==
  [h EXCEPT ![node1].data = h[node2].data, ![node2].data = h[node1].data]

\* Faulty variant: only the key pointers are exchanged.
_strSwapInfo_keysOnly(h, node1, node2) ==
  [h EXCEPT ![node1].key = h[node2].key, ![node2].key = h[node1].key]

_strSwapInfo(h, node1, node2) ==
  [h EXCEPT ![node1].key = h[node2].key, ![node1].data = h[node2].data,
            ![node2].key = h[node1].key, ![node2].data = h[node1].data]

_strRightRotation(h, node) ==
  LET leftSon == h[node].leftSon
      h1      == _strSwapInfo(h, node, leftSon)
      rTree   == h1[node].rightSon
      h2      == _strCutRightSubtree(h1, node)
      lTree   == h2[node].leftSon
      h3      == _strCutLeftSubtree(h2, node)
      lTree_l == h3[leftSon].leftSon
      h4      == _strCutLeftSubtree(h3, leftSon)
      lTree_r == h4[leftSon].rightSon
      h5      == _strCutRightSubtree(h4, leftSon)
      h6      == _strInsertAsRightSubtree(h5, lTree, rTree)
      h7      == _strInsertAsLeftSubtree(h6, lTree, lTree_r)
      h8      == _strInsertAsRightSubtree(h7, node, lTree)
      h9      == _strInsertAsLeftSubtree(h8, node, lTree_l)
      h10     == _strUpdateHeight(h9, h9[node].rightSon)
  IN  _strUpdateHeight(h10, node)

_strLeftRotation(h, node) ==
  LET rightSon == h[node].rightSon
      h1      == _strSwapInfo(h, node, rightSon)
      rTree   == h1[node].rightSon
      h2      == _strCutRightSubtree(h1, node)
      lTree   == h2[node].leftSon
      h3      == _strCutLeftSubtree(h2, node)
      rTree_l == h3[rightSon].leftSon
      h4      == _strCutLeftSubtree(h3, rightSon)
      rTree_r == h4[rightSon].rightSon
      h5      == _strCutRightSubtree(h4, rightSon)
      h6      == _strInsertAsLeftSubtree(h5, rTree, lTree)
      h7      == _strInsertAsRightSubtree(h6, rTree, rTree_l)
      h8      == _strInsertAsLeftSubtree(h7, node, rTree)
      h9      == _strInsertAsRightSubtree(h8, node, rTree_r)
      h10     == _strUpdateHeight(h9, h9[node].leftSon)
  IN  _strUpdateHeight(h10, node)

\* Faulty variant: no rotation is made.
_strRotate_none(h, node) == h

_strRotate(h, node) ==
  LET balFactor == _strBalanceFactor(h, node)
  IN  IF balFactor = 2
      THEN IF _strBalanceFactor(h, h[node].leftSon) >= 0
           THEN _strRightRotation(h, node)
           ELSE _strRightRotation(_strLeftRotation(h, h[node].leftSon), node)
      ELSE IF balFactor = -2
      THEN IF _strBalanceFactor(h, h[node].rightSon) <= 0
           THEN _strLeftRotation(h, node)
           ELSE _strLeftRotation(_strRightRotation(h, h[node].rightSon), node)
      ELSE h

\* The rotations _strRotate(node) makes, in order: << kind, node rotated >>.
rotations(h, node) ==
  LET balFactor == _strBalanceFactor(h, node)
  IN  IF balFactor = 2
      THEN IF _strBalanceFactor(h, h[node].leftSon) >= 0
           THEN << <<"right", node>> >>
           ELSE << <<"left", h[node].leftSon>>, <<"right", node>> >>
      ELSE IF balFactor = -2
      THEN IF _strBalanceFactor(h, h[node].rightSon) <= 0
           THEN << <<"left", node>> >>
           ELSE << <<"right", h[node].rightSon>>, <<"left", node>> >>
      ELSE << >>

\* Where the loop of _strBalanceInsert, started at curr, stops: the node it
\* calls _strRotate on (NULL when it runs past the root), and the heap with
\* the heights it has updated on the way.
RECURSIVE rotatePointFrom(_, _)
rotatePointFrom(h, curr) ==
  IF curr = NULL THEN [ node |-> NULL, heap |-> h ]
  ELSE IF abs(_strBalanceFactor(h, curr)) >= 2 THEN [ node |-> curr, heap |-> h ]
  ELSE rotatePointFrom(_strUpdateHeight(h, curr), h[curr].father)

\* The loop of _strBalanceInsert from curr upwards, then the rotation.
RECURSIVE balanceInsertFrom(_, _)
balanceInsertFrom(h, curr) ==
  IF curr = NULL THEN h
  ELSE IF abs(_strBalanceFactor(h, curr)) >= 2 THEN _strRotate(h, curr)
  ELSE balanceInsertFrom(_strUpdateHeight(h, curr), h[curr].father)

_strBalanceInsert(h, newNode) == balanceInsertFrom(h, h[newNode].father)

RECURSIVE _strBalanceDelete(_, _)
_strBalanceDelete(h, remFather) ==
  IF remFather = NULL THEN h
  ELSE LET h1 == IF abs(_strBalanceFactor(h, remFather)) >= 2
                 THEN _strRotate(h, remFather)
                 ELSE _strUpdateHeight(h, remFather)
       IN  _strBalanceDelete(h1, h1[remFather].father)

\* The node _strCutOneSonNode(node) returns (the one to free).
cutOneSonResult(h, node) ==
  IF h[node].leftSon # NULL THEN h[node].leftSon
  ELSE IF h[node].rightSon # NULL THEN h[node].rightSon
  ELSE node

\* The balance factors of 2 or more in absolute value that the loop of
\* _strBalanceDelete, started at remFather, hands to _strRotate.
RECURSIVE balanceDeleteFactors(_, _)
balanceDeleteFactors(h, remFather) ==
  IF remFather = NULL THEN {}
  ELSE LET balFactor == _strBalanceFactor(h, remFather)
           h1 == IF abs(balFactor) >= 2 THEN _strRotate(h, remFather)
                 ELSE _strUpdateHeight(h, remFather)
       IN  (IF abs(balFactor) >= 2 THEN {balFactor} ELSE {})
             \cup balanceDeleteFactors(h1, h1[remFather].father)

\* Heap of _strCutOneSonNode(node) once the node to free is detached, before
\* the call of _strBalanceDelete.
cutOneSonDetached(h, node) ==
  LET son    == IF h[node].leftSon # NULL THEN h[node].leftSon
                ELSE IF h[node].rightSon # NULL THEN h[node].rightSon
                ELSE NULL
  IN  IF son = NULL THEN _strCutSubtree(h, node)
      ELSE LET h1 == _strSwapInfo(h, node, son)
               h2 == _strCutSubtree(h1, son)
               r  == h2[son].rightSon
               h3 == _strCutSubtree(h2, r)
               h4 == _strInsertAsRightSubtree(h3, node, r)
               l  == h4[son].leftSon
               h5 == _strCutSubtree(h4, l)
           IN  _strInsertAsLeftSubtree(h5, node, l)

\* Heap after _strCutOneSonNode(node).
_strCutOneSonNode(h, node) ==
  _strBalanceDelete(cutOneSonDetached(h, node), h[node].father)

\* ------------------------------------------------------------ the tree
\* Uninitialised or released memory.
Blank == [ father |-> NULL, leftSon |-> NULL, rightSon |-> NULL,
           key |-> NULLKEY, data |-> 0, height |-> 0 ]

\* Recorded as the return value of a call that did not return; fault then
\* names the undefined behaviour that ended it.
NoRet == 0 - 1
NoFreed == [ node |-> NULL, key |-> NULLKEY, data |-> 0,
             relKey |-> FALSE, relData |-> FALSE ]

\* opts & flag, for a non-negative option word and a one-bit flag.
HasFlag(opts, flag) == (opts \div flag) % 2 = 1

\* The address malloc hands out: the lowest one not in use.
malloc == CHOOSE n \in NodeIds \ live : \A m \in NodeIds \ live : n <= m

\* Faulty variant: the tree counts as full only beyond its capacity.
treeIsFull_beyond(count, max) == count > max

\* strInsert's test "the tree is full".
treeIsFull(count, max) == count = max

\* The loop of strInsert: the node under which the new key is placed.
RECURSIVE insertPred(_, _, _, _)
insertPred(h, curr, pred, newKey) ==
  IF curr = NULL THEN pred
  ELSE IF strcmp(h[curr].key, newKey) >= 0
       THEN insertPred(h, h[curr].leftSon, curr, newKey)
       ELSE insertPred(h, h[curr].rightSon, curr, newKey)

\* The heap once strInsert has linked newNode under the node its loop ends
\* at, on the left when that node's key is >= newKey.
linkNewNode(h0, r, newNode, newKey) ==
  LET pred == insertPred(h0, r, NULL, newKey)
  IN  IF strcmp(h0[pred].key, newKey) >= 0
      THEN _strInsertAsLeftSubtree(h0, pred, newNode)
      ELSE _strInsertAsRightSubtree(h0, pred, newNode)

\* createStrTree, with the capacity the caller then sets.
InitCap(cap) ==
  /\ root = NULL
  /\ nodesCount = 0
  /\ maxNodes = cap
  /\ mem = [n \in NodeIds |-> Blank]
  /\ live = {}
  /\ nextData = 1
  /\ last = [op |-> "createStrTree", ret |-> NoRet]
  /\ freed = NoFreed
  /\ fault = "none"

Init == \E cap \in 1 .. MaxNodes : InitCap(cap)

\* strInsert(tree, newKey, newData): treeOk is FALSE for tree == NULL, allocOk
\* is the outcome of malloc in _createStrNode.
strInsert(treeOk, newKey, allocOk) ==
  /\ fault = "none"
  /\ allocOk => live # NodeIds
  /\ freed' = NoFreed
  /\ UNCHANGED maxNodes
  /\ IF newKey = NULLKEY \/ ~treeOk \/ treeIsFull(nodesCount, maxNodes)
     THEN /\ last' = [op |-> "strInsert", ret |-> 0]
          /\ UNCHANGED << root, nodesCount, mem, live, nextData, fault >>
     ELSE LET newNode == IF allocOk THEN malloc ELSE NULL
              h0 == IF allocOk
                    THEN [mem EXCEPT ![newNode] = _createStrNode(newKey, nextData)]
                    ELSE mem
          IN  IF root = NULL
              THEN /\ root' = newNode
                   /\ nodesCount' = nodesCount + 1
                   /\ mem' = h0
                   /\ live' = IF allocOk THEN live \cup {newNode} ELSE live
                   /\ nextData' = IF allocOk THEN nextData + 1 ELSE nextData
                   /\ last' = [op |-> "strInsert", ret |-> nodesCount + 1]
                   /\ UNCHANGED fault
              ELSE IF root \notin live
              THEN \* curr->_key reads a node that was freed
                   /\ fault' = "use_after_free"
                   /\ last' = [op |-> "strInsert", ret |-> NoRet]
                   /\ UNCHANGED << root, nodesCount, mem, live, nextData >>
              ELSE IF newNode = NULL
              THEN \* _strBalanceInsert(NULL) reads newNode->_father
                   /\ fault' = "null_deref"
                   /\ last' = [op |-> "strInsert", ret |-> NoRet]
                   /\ UNCHANGED << root, nodesCount, mem, live, nextData >>
              ELSE LET h1 == linkNewNode(h0, root, newNode, newKey)
                   IN  /\ mem' = _strBalanceInsert(h1, newNode)
                       /\ nodesCount' = nodesCount + 1
                       /\ live' = live \cup {newNode}
                       /\ nextData' = nextData + 1
                       /\ last' = [op |-> "strInsert", ret |-> nodesCount + 1]
                       /\ UNCHANGED << root, fault >>

\* strDelete(tree, key, opts).
strDelete(treeOk, k, opts) ==
  /\ fault = "none"
  /\ UNCHANGED << maxNodes, nextData >>
  /\ IF opts < 0 \/ k = NULLKEY \/ ~treeOk
     THEN /\ last' = [op |-> "strDelete", ret |-> 0]
          /\ freed' = NoFreed
          /\ UNCHANGED << root, nodesCount, mem, live, fault >>
     ELSE IF root # NULL /\ root \notin live
     THEN \* _searchStrNode reads a node that was freed
          /\ fault' = "use_after_free"
          /\ last' = [op |-> "strDelete", ret |-> NoRet]
          /\ freed' = NoFreed
          /\ UNCHANGED << root, nodesCount, mem, live >>
     ELSE LET toDelete == _searchStrNode(mem, root, k)
          IN  IF toDelete = NULL
              THEN /\ last' = [op |-> "strDelete", ret |-> 0]
                   /\ freed' = NoFreed
                   /\ UNCHANGED << root, nodesCount, mem, live, fault >>
              ELSE LET oneSon == mem[toDelete].leftSon = NULL
                                   \/ mem[toDelete].rightSon = NULL
                       maxLeft == _strMaxKeySon(mem, mem[toDelete].leftSon)
                       hSwap == _strSwapInfo(mem, toDelete, maxLeft)
                       toFree == IF oneSon THEN cutOneSonResult(mem, toDelete)
                                 ELSE cutOneSonResult(hSwap, maxLeft)
                       h1 == IF oneSon THEN _strCutOneSonNode(mem, toDelete)
                             ELSE _strCutOneSonNode(hSwap, maxLeft)
                   IN  /\ freed' = [ node |-> toFree, key |-> h1[toFree].key,
                                     data |-> h1[toFree].data,
                                     relKey |-> HasFlag(opts, DELETE_FREE_KEYS),
                                     relData |-> HasFlag(opts, DELETE_FREE_DATA) ]
                       /\ mem' = [h1 EXCEPT ![toFree] = Blank]
                       /\ live' = live \ {toFree}
                       /\ nodesCount' = nodesCount - 1
                       /\ root' = IF nodesCount - 1 = 0 THEN NULL ELSE root
                       /\ last' = [op |-> "strDelete", ret |-> 1]
                       /\ UNCHANGED fault

Next ==
  \/ /\ nextData <= MaxInserts
     /\ \E a \in InsertArgs : strInsert(a[1], a[2], a[3])
  \/ \E a \in DeleteArgs : strDelete(a[1], a[2], a[3])

Spec == Init /\ [][Next]_vars

\* Longer runs of valid calls only, on two keys, with the allocator never
\* failing and the capacity at the size of the address space.
LongKeys == { <<1>>, <<2>> }

InitLong == InitCap(MaxCap)

NextLong ==
  \/ /\ nextData <= LongInserts
     /\ \E k \in LongKeys : strInsert(TRUE, k, TRUE)
  \/ \E k \in LongKeys : strDelete(TRUE, k, 0)

SpecLong == InitLong /\ [][NextLong]_vars

\* ------------------------------------------------- what the tree holds
\* The tree has a root that is allocated.
RootLive == root # NULL /\ root \in live

RECURSIVE SubtreeNodes(_, _)
SubtreeNodes(h, n) ==
  IF n = NULL THEN {}
  ELSE {n} \cup SubtreeNodes(h, h[n].leftSon) \cup SubtreeNodes(h, h[n].rightSon)

\* Nodes reachable from the root.
TreeNodes == IF RootLive THEN SubtreeNodes(mem, root) ELSE {}

RECURSIVE RealHeight(_, _)
RealHeight(h, n) ==
  IF n = NULL THEN -1
  ELSE 1 + MAX(RealHeight(h, h[n].leftSon), RealHeight(h, h[n].rightSon))

\* Nodes of a subtree, in order (left, node, right).
RECURSIVE InOrder(_, _)
InOrder(h, n) ==
  IF n = NULL THEN << >>
  ELSE InOrder(h, h[n].leftSon) \o <<n>> \o InOrder(h, h[n].rightSon)

TreeInOrder == IF RootLive THEN InOrder(mem, root) ELSE << >>

RECURSIVE BagOfSet(_, _)
BagOfSet(h, S) ==
  IF S = {} THEN EmptyBag
  ELSE LET n == CHOOSE x \in S : TRUE
       IN  BagOfSet(h, S \ {n}) (+) SetToBag({ <<h[n].key, h[n].data>> })

\* The multiset of (key, value) entries stored in the tree.
Entries(h, r, lv) ==
  IF r # NULL /\ r \in lv THEN BagOfSet(h, SubtreeNodes(h, r)) ELSE EmptyBag

TypeOK ==
  /\ root \in NodeIds \cup {NULL}
  /\ nodesCount \in 0 .. MaxCap
  /\ live \subseteq NodeIds
  /\ fault \in {"none", "use_after_free", "null_deref", "overflow"}

\* ------------------------------------------------- depth-first traversal
\* What a traversal stores for a node under the projection intOpt.
projection(h, node, intOpt) ==
  IF HasFlag(intOpt, SEARCH_NODES) THEN node
  ELSE IF HasFlag(intOpt, SEARCH_KEYS) THEN h[node].key
  ELSE h[node].data

\* _strInODFS on the cursor d = [ptr: the slot *intPtr points at, out: the
\* slots written so far]; slot 0 is the start of the result array.
RECURSIVE _strInODFS(_, _, _, _)
_strInODFS(h, rootNode, d, intOpt) ==
  IF rootNode = NULL THEN [d EXCEPT !.ptr = d.ptr - 1]
  ELSE LET d1 == _strInODFS(h, h[rootNode].leftSon, d, intOpt)
           p  == d1.ptr + 1
           d2 == [ ptr |-> p + 1,
                   out |-> (p :> projection(h, rootNode, intOpt)) @@ d1.out ]
       IN  _strInODFS(h, h[rootNode].rightSon, d2, intOpt)

\* The slots strDFS(tree, DFS_IN_ORDER, SEARCH_KEYS) fills.
InOrderKeysOut ==
  _strInODFS(mem, root, [ptr |-> 0, out |-> << >>], SEARCH_KEYS).out

\* _strPreODFS on the same cursor.
RECURSIVE _strPreODFS(_, _, _, _)
_strPreODFS(h, rootNode, d, intOpt) ==
  IF rootNode = NULL THEN [d EXCEPT !.ptr = d.ptr - 1]
  ELSE LET d1 == [ ptr |-> d.ptr + 1,
                   out |-> (d.ptr :> projection(h, rootNode, intOpt)) @@ d.out ]
           d2 == _strPreODFS(h, h[rootNode].leftSon, d1, intOpt)
           d3 == [d2 EXCEPT !.ptr = d2.ptr + 1]
       IN  _strPreODFS(h, h[rootNode].rightSon, d3, intOpt)

\* _strPostODFS on the same cursor.
RECURSIVE _strPostODFS(_, _, _, _)
_strPostODFS(h, rootNode, d, intOpt) ==
  IF rootNode = NULL THEN [d EXCEPT !.ptr = d.ptr - 1]
  ELSE LET d1 == _strPostODFS(h, h[rootNode].leftSon, d, intOpt)
           d2 == [d1 EXCEPT !.ptr = d1.ptr + 1]
           d3 == _strPostODFS(h, h[rootNode].rightSon, d2, intOpt)
           p  == d3.ptr + 1
       IN  [ ptr |-> p,
             out |-> (p :> projection(h, rootNode, intOpt)) @@ d3.out ]

\* ------------------------------------------------------------ the queries
DFS_PRE_ORDER == 32
DFS_IN_ORDER == 64
DFS_POST_ORDER == 128
BFS_LEFT_FIRST == 256
BFS_RIGHT_FIRST == 512

\* What a void * in a result refers to: nothing, a node, a key or a value.
NullRef == [ kind |-> "null", node |-> NULL, key |-> NULLKEY, data |-> 0 ]
NodeRef(n) == [ kind |-> "node", node |-> n, key |-> NULLKEY, data |-> 0 ]
KeyRef(k) == [ kind |-> "key", node |-> NULL, key |-> k, data |-> 0 ]
DataRef(d) == [ kind |-> "data", node |-> NULL, key |-> NULLKEY, data |-> d ]

\* The reference a slot holds when v was stored in it under the projection
\* intOpt.
RefOf(intOpt, v) ==
  IF intOpt = SEARCH_NODES THEN NodeRef(v)
  ELSE IF intOpt = SEARCH_KEYS THEN KeyRef(v)
  ELSE DataRef(v)

\* The projection a traversal takes when opts holds several: the first one
\* it tests.
firstProjection(opts) ==
  IF HasFlag(opts, SEARCH_DATA) THEN SEARCH_DATA
  ELSE IF HasFlag(opts, SEARCH_KEYS) THEN SEARCH_KEYS
  ELSE SEARCH_NODES

\* A result array of count slots of which a traversal under the projection
\* intOpt wrote those of written: slot by slot, what each slot refers to (a
\* slot not written is still zero).
RefArray(intOpt, count, written) ==
  [ i \in 0 .. (count - 1) |->
      IF i \in DOMAIN written THEN RefOf(intOpt, written[i]) ELSE NullRef ]

\* A pointer a query returns: NULL, a reference val (strSearch), or a result
\* array arr given as the function from slot to reference (strDFS, strBFS).
NullPtr == [ null |-> TRUE, val |-> NullRef, arr |-> << >> ]
Ptr(v) == [ null |-> FALSE, val |-> v, arr |-> << >> ]
ArrPtr(a) == [ null |-> FALSE, val |-> NullRef, arr |-> a ]

\* What a call does: fault is "none" when it returns, and then ret is what
\* it returns.
Returns(r) == [ fault |-> "none", ret |-> r ]
Faults(f) == [ fault |-> f, ret |-> NullPtr ]

\* calloc(n, size): n slots, all zero.
calloc(n) == [ i \in 0 .. (n - 1) |-> NULL ]

\* strSearch(tree, key, opts) on the tree (r, h, lv): root, heap, live nodes.
strSearchCall(r, h, lv, treeOk, key, opts) ==
  IF opts <= 0 \/ ~treeOk THEN Returns(NullPtr)
  ELSE IF r = NULL THEN Returns(NullPtr)
  ELSE IF r \notin lv THEN Faults("use_after_free")
  ELSE IF key = NULLKEY THEN Faults("null_deref")
  ELSE LET searchedNode == _searchStrNode(h, r, key)
       IN  IF searchedNode # NULL
           THEN IF HasFlag(opts, SEARCH_DATA)
                THEN Returns(Ptr(DataRef(h[searchedNode].data)))
                ELSE IF HasFlag(opts, SEARCH_NODES)
                THEN Returns(Ptr(NodeRef(searchedNode)))
                ELSE Returns(NullPtr)
           ELSE Returns(NullPtr)

\* strDFS(tree, type, opts); allocOk is the outcome of calloc.
strDFSCall(r, count, h, lv, treeOk, type, opts, allocOk) ==
  IF type <= 0 \/ opts <= 0 THEN Returns(NullPtr)
  ELSE IF ~treeOk \/ r = NULL THEN Returns(NullPtr)
  ELSE IF ~(HasFlag(opts, SEARCH_DATA) \/ HasFlag(opts, SEARCH_KEYS)
              \/ HasFlag(opts, SEARCH_NODES))
  THEN Returns(NullPtr)
  ELSE IF ~allocOk THEN Returns(NullPtr)
  ELSE LET intOpt == firstProjection(opts)
           d0 == [ ptr |-> 0, out |-> << >> ]
           pre == HasFlag(type, DFS_PRE_ORDER)
           ino == HasFlag(type, DFS_IN_ORDER)
           post == HasFlag(type, DFS_POST_ORDER)
       IN  IF ~(pre \/ ino \/ post) THEN Returns(NullPtr)
           ELSE IF r \notin lv THEN Faults("use_after_free")
           ELSE LET d == IF pre THEN _strPreODFS(h, r, d0, intOpt)
                         ELSE IF ino THEN _strInODFS(h, r, d0, intOpt)
                         ELSE _strPostODFS(h, r, d0, intOpt)
                IN  IF DOMAIN d.out \subseteq 0 .. (count - 1)
                    THEN Returns(ArrPtr(RefArray(intOpt, count, d.out)))
                    ELSE Faults("overflow")

\* What strBFS stores in the slot of the node it visits.
bfsVisit(h, curr, opts) ==
  IF HasFlag(opts, SEARCH_DATA) THEN h[curr].data
  ELSE IF HasFlag(opts, SEARCH_KEYS) THEN h[curr].key
  ELSE IF HasFlag(opts, SEARCH_NODES) THEN curr
  ELSE curr

\* The sons strBFS appends for the node it visits, in the order it appends them.
bfsSons(h, curr, type) ==
  LET l == IF h[curr].leftSon # NULL THEN << h[curr].leftSon >> ELSE << >>
      rr == IF h[curr].rightSon # NULL THEN << h[curr].rightSon >> ELSE << >>
  IN  IF HasFlag(type, BFS_LEFT_FIRST) THEN l \o rr
      ELSE IF HasFlag(type, BFS_RIGHT_FIRST) THEN rr \o l
      ELSE << >>

\* The loop of strBFS from iteration i on: bfsRes is the array, intPtr the
\* slot the next son goes to.
RECURSIVE bfsLoop(_, _, _, _, _, _, _, _)
bfsLoop(h, lv, count, type, opts, bfsRes, i, intPtr) ==
  IF i >= count THEN Returns(ArrPtr(RefArray(firstProjection(opts), count, bfsRes)))
  ELSE LET curr == bfsRes[i]
       IN  IF curr = NULL THEN Faults("null_deref")
           ELSE IF curr \notin lv THEN Faults("use_after_free")
           ELSE LET sons == bfsSons(h, curr, type)
                    visited == [bfsRes EXCEPT ![i] = bfsVisit(h, curr, opts)]
                    queued == [ j \in DOMAIN visited |->
                                  IF j >= intPtr /\ j < intPtr + Len(sons)
                                  THEN sons[j - intPtr + 1] ELSE visited[j] ]
                IN  IF intPtr + Len(sons) > count THEN Faults("overflow")
                    ELSE bfsLoop(h, lv, count, type, opts, queued, i + 1,
                                 intPtr + Len(sons))

\* strBFS(tree, type, opts); allocOk is the outcome of calloc.
strBFSCall(r, count, h, lv, treeOk, type, opts, allocOk) ==
  IF \/ ~treeOk \/ r = NULL \/ type <= 0 \/ opts <= 0
     \/ ~(HasFlag(type, BFS_LEFT_FIRST) \/ HasFlag(type, BFS_RIGHT_FIRST))
     \/ ~(HasFlag(opts, SEARCH_KEYS) \/ HasFlag(opts, SEARCH_DATA)
            \/ HasFlag(opts, SEARCH_NODES))
  THEN Returns(NullPtr)
  ELSE IF ~allocOk THEN Returns(NullPtr)
  ELSE IF count = 0 THEN Faults("overflow")
  ELSE bfsLoop(h, lv, count, type, opts, [calloc(count) EXCEPT ![0] = r], 0, 1)

\* strSearch(tree, key, opts).
strSearch(treeOk, key, opts) ==
  LET call == strSearchCall(root, mem, live, treeOk, key, opts)
  IN  /\ fault = "none"
      /\ fault' = call.fault
      /\ last' = [op |-> "strSearch", ret |-> call.ret]
      /\ freed' = NoFreed
      /\ UNCHANGED << root, nodesCount, maxNodes, mem, live, nextData >>

\* strDFS(tree, type, opts).
strDFS(treeOk, type, opts, allocOk) ==
  LET call == strDFSCall(root, nodesCount, mem, live, treeOk, type, opts, allocOk)
  IN  /\ fault = "none"
      /\ fault' = call.fault
      /\ last' = [op |-> "strDFS", ret |-> call.ret]
      /\ freed' = NoFreed
      /\ UNCHANGED << root, nodesCount, maxNodes, mem, live, nextData >>

\* strBFS(tree, type, opts).
strBFS(treeOk, type, opts, allocOk) ==
  LET call == strBFSCall(root, nodesCount, mem, live, treeOk, type, opts, allocOk)
  IN  /\ fault = "none"
      /\ fault' = call.fault
      /\ last' = [op |-> "strBFS", ret |-> call.ret]
      /\ freed' = NoFreed
      /\ UNCHANGED << root, nodesCount, maxNodes, mem, live, nextData >>

\* deleteStrTree(tree, opts); allocOk is the outcome of calloc in strBFS.
\* freed' lists what the loop hands to free(), node by node; the released
\* container is recorded with an absent root, no node and no capacity.
deleteStrTree(treeOk, opts, allocOk) ==
  /\ fault = "none"
  /\ UNCHANGED nextData
  /\ IF ~treeOk \/ opts < 0
     THEN /\ last' = [op |-> "deleteStrTree", ret |-> 0 - 1]
          /\ freed' = << >>
          /\ UNCHANGED << root, nodesCount, maxNodes, mem, live, fault >>
     ELSE IF root = NULL
     THEN /\ last' = [op |-> "deleteStrTree", ret |-> 0]
          /\ freed' = << >>
          /\ root' = NULL /\ nodesCount' = 0 /\ maxNodes' = 0
          /\ UNCHANGED << mem, live, fault >>
     ELSE LET call == strBFSCall(root, nodesCount, mem, live, TRUE,
                                 BFS_LEFT_FIRST, SEARCH_NODES, allocOk)
              nodes == [ i \in DOMAIN call.ret.arr |-> call.ret.arr[i].node ]
          IN  IF call.fault # "none" \/ call.ret.null
              THEN \* strBFS ran into the fault, or nodes[0] is read through NULL
                   /\ fault' = IF call.fault # "none" THEN call.fault
                               ELSE "null_deref"
                   /\ last' = [op |-> "deleteStrTree", ret |-> NoRet]
                   /\ freed' = << >>
                   /\ UNCHANGED << root, nodesCount, maxNodes, mem, live >>
              ELSE /\ freed' = [ i \in 1 .. nodesCount |->
                                   [ node |-> nodes[i - 1],
                                     key |-> mem[nodes[i - 1]].key,
                                     data |-> mem[nodes[i - 1]].data,
                                     relKey |-> HasFlag(opts, DELETE_FREE_KEYS),
                                     relData |-> HasFlag(opts, DELETE_FREE_DATA) ] ]
                   /\ mem' = [ n \in NodeIds |->
                                 IF \E i \in DOMAIN nodes : nodes[i] = n
                                 THEN Blank ELSE mem[n] ]
                   /\ live' = live \ { nodes[i] : i \in DOMAIN nodes }
                   /\ root' = NULL /\ nodesCount' = 0 /\ maxNodes' = 0
                   /\ last' = [op |-> "deleteStrTree", ret |-> 0]
                   /\ UNCHANGED fault

\* Number of nodes created over a run of SpecQuery.
QueryInserts == 3

SearchOpts == { SEARCH_DATA, SEARCH_KEYS, SEARCH_NODES }
DFSTypes == { DFS_PRE_ORDER, DFS_IN_ORDER, DFS_POST_ORDER }
BFSTypes == { BFS_LEFT_FIRST, BFS_RIGHT_FIRST }
\* Option words with two flags of the same axis.
TwoProjections == { SEARCH_DATA + SEARCH_NODES, SEARCH_KEYS + SEARCH_NODES }
TwoOrders == { DFS_PRE_ORDER + DFS_IN_ORDER, DFS_IN_ORDER + DFS_POST_ORDER }
TwoDirections == { BFS_LEFT_FIRST + BFS_RIGHT_FIRST }

\* Calls of strSearch: <<tree is a container, key, opts>>.
SearchArgs ==
  ({TRUE} \X Keys \X SearchOpts)
    \cup ({TRUE} \X { <<1>> } \X ({0} \cup TwoProjections))
    \cup { <<FALSE, <<1>>, SEARCH_DATA>>, <<TRUE, NULLKEY, SEARCH_DATA>> }
\* Calls of strDFS: <<tree is a container, type, opts, calloc succeeds>>.
DFSArgs ==
  ({TRUE} \X DFSTypes \X SearchOpts \X {TRUE})
    \cup ({TRUE} \X ({0} \cup TwoOrders) \X { SEARCH_NODES } \X {TRUE})
    \cup ({TRUE} \X { DFS_IN_ORDER } \X ({0} \cup TwoProjections) \X {TRUE})
    \cup { <<FALSE, DFS_IN_ORDER, SEARCH_NODES, TRUE>>,
           <<TRUE, DFS_IN_ORDER, SEARCH_NODES, FALSE>> }
\* Calls of strBFS: <<tree is a container, type, opts, calloc succeeds>>.
BFSArgs ==
  ({TRUE} \X BFSTypes \X SearchOpts \X {TRUE})
    \cup ({TRUE} \X ({0} \cup TwoDirections) \X { SEARCH_NODES } \X {TRUE})
    \cup ({TRUE} \X { BFS_LEFT_FIRST } \X ({0} \cup TwoProjections) \X {TRUE})
    \cup { <<FALSE, BFS_LEFT_FIRST, SEARCH_NODES, TRUE>>,
           <<TRUE, BFS_LEFT_FIRST, SEARCH_NODES, FALSE>> }
\* Calls of deleteStrTree: <<tree is a container, opts, calloc succeeds>>.
DestroyOpts == { 0, DELETE_FREE_DATA, DELETE_FREE_KEYS,
                 DELETE_FREE_DATA + DELETE_FREE_KEYS }
DestroyArgs ==
  ({TRUE} \X DestroyOpts \X {TRUE})
    \cup { <<TRUE, 0, FALSE>>, <<TRUE, 0 - 1, TRUE>>, <<FALSE, 0, TRUE>> }

\* deleteStrTree has released the container: the caller holds no tree to call
\* anything on.
TreeReleased == last.op = "deleteStrTree" /\ last.ret = 0 /\ fault = "none"

\* Every public function, the queries and the teardown included, on a tree
\* of up to QueryInserts nodes.
InitQuery == InitCap(MaxNodes)

NextQuery ==
  \/ /\ nextData <= QueryInserts /\ ~TreeReleased
     /\ \E a \in InsertArgs : strInsert(a[1], a[2], a[3])
  \/ ~TreeReleased /\ \E a \in DeleteArgs : strDelete(a[1], a[2], a[3])
  \/ ~TreeReleased /\ \E a \in SearchArgs : strSearch(a[1], a[2], a[3])
  \/ ~TreeReleased /\ \E a \in DFSArgs : strDFS(a[1], a[2], a[3], a[4])
  \/ ~TreeReleased /\ \E a \in BFSArgs : strBFS(a[1], a[2], a[3], a[4])
  \/ ~TreeReleased /\ \E a \in DestroyArgs : deleteStrTree(a[1], a[2], a[3])

SpecQuery == InitQuery /\ [][NextQuery]_vars

\* ------------------------------------------------------------ balance
\* Every reachable node's subtrees differ in actual height by at most 1.
Balanced ==
  \A n \in TreeNodes :
    abs(RealHeight(mem, mem[n].leftSon) - RealHeight(mem, mem[n].rightSon)) <= 1

\* Every reachable node's cached height is its actual height.
HeightsConsistent ==
  \A n \in TreeNodes : mem[n].height = RealHeight(mem, n)

\* A public call has completed (it returned and ran into no undefined behaviour).
Completed == fault = "none" /\ last.op \in {"strInsert", "strDelete"}

\* ------------------------------------------------------------------ claims
\* C1: after every completed strInsert or strDelete, the actual heights of the
\* two subtrees of every node reachable from the root differ by at most 1.
C1_BalanceInvariant == Completed => Balanced

\* C2: after every completed strInsert or strDelete, every reachable node's
\* cached height is 1 + max of its subtrees' heights (an absent subtree: -1).
C2_HeightConsistency == Completed => HeightsConsistent

\* C3: after every completed public operation nodesCount is the number of
\* nodes reachable from the root, and it is 0 exactly when the root is absent.
C3_CountIsReachableNodes ==
  fault = "none" =>
    /\ nodesCount = Cardinality(TreeNodes)
    /\ (nodesCount = 0 <=> root = NULL)

\* C4: after any sequence of inserts and deletes the in-order depth-first
\* traversal under the key projection fills the slots 0 .. n-1 (n the number
\* of nodes) with keys in non-decreasing lexicographic order.
C4_InOrderKeysSorted ==
  (fault = "none" /\ RootLive) =>
    LET out == InOrderKeysOut
    IN  /\ DOMAIN out = 0 .. (Cardinality(TreeNodes) - 1)
        /\ \A i, j \in DOMAIN out : i < j => strcmp(out[i], out[j]) <= 0

\* A delete has removed a node since the last insert, three or more nodes are
\* left and the keys in the tree are not all the same.
C4_Witness ==
  /\ fault = "none" /\ RootLive
  /\ last.op = "strDelete" /\ last.ret = 1
  /\ Cardinality(TreeNodes) >= 3
  /\ \E n, m \in TreeNodes : mem[n].key # mem[m].key

\* C5: after every completed insert or delete, for every node the keys in its
\* left subtree are <= its key and the keys in its right subtree are strictly
\* greater than its key.
C5_StrictOrdering ==
  Completed =>
    \A n \in TreeNodes :
      /\ \A m \in SubtreeNodes(mem, mem[n].leftSon) :
           strcmp(mem[m].key, mem[n].key) <= 0
      /\ \A m \in SubtreeNodes(mem, mem[n].rightSon) :
           strcmp(mem[m].key, mem[n].key) > 0

\* The multiset of entries in the tree now.
TreeEntries == Entries(mem, root, live)

\* Some node of the tree holds key k.
KeyInTree(k) == \E n \in TreeNodes : mem[n].key = k

\* C6: strDelete of a key that is present returns 1, decrements nodesCount by
\* one, leaves the root absent when the count reaches 0, and removes exactly
\* one entry with that key; the node it frees is taken off the heap holding
\* the removed entry's key and value, and the key and value buffers are
\* released as the two flags say.
C6_DeletePresent ==
  [][ \A k \in Keys, opts \in DeleteOpts :
        (last'.op = "strDelete" /\ KeyInTree(k) /\ strDelete(TRUE, k, opts)) =>
          /\ last'.ret = 1
          /\ nodesCount' = nodesCount - 1
          /\ (nodesCount' = 0 => root' = NULL)
          /\ freed'.key = k
          /\ BagIn(<<freed'.key, freed'.data>>, TreeEntries)
          /\ TreeEntries' = TreeEntries (-) SetToBag({ <<freed'.key, freed'.data>> })
          /\ freed'.node \in live /\ live' = live \ {freed'.node}
          /\ freed'.relKey = HasFlag(opts, DELETE_FREE_KEYS)
          /\ freed'.relData = HasFlag(opts, DELETE_FREE_DATA)
    ]_vars

\* A delete removed one of several entries with the same key, and not the one
\* inserted last; three or more nodes are left.
C6_Witness ==
  /\ fault = "none" /\ last.op = "strDelete" /\ last.ret = 1
  /\ Cardinality(TreeNodes) >= 3
  /\ \E n \in TreeNodes : mem[n].key = freed.key /\ mem[n].data > freed.data

\* C7: a strInsert that is not rejected and whose allocation succeeds returns
\* the old nodesCount plus one, which is the new nodesCount, and adds exactly
\* the entry (key, value) to the entries of the tree, a key already present
\* included.
C7_InsertAddsEntry ==
  [][ \A k \in Keys :
        (last'.op = "strInsert" /\ last'.ret \notin {0, NoRet}
           /\ strInsert(TRUE, k, TRUE)) =>
          /\ last'.ret = nodesCount + 1
          /\ nodesCount' = nodesCount + 1
          /\ TreeEntries' = TreeEntries (+) SetToBag({ <<k, nextData>> })
    ]_vars

\* An insert has just added an entry whose key another entry holds too.
C7_Witness ==
  /\ fault = "none" /\ last.op = "strInsert" /\ last.ret = nodesCount
  /\ Cardinality(TreeNodes) >= 3
  /\ \E n, m \in TreeNodes :
       n # m /\ mem[n].key = mem[m].key /\ mem[n].data = nextData - 1

\* C8: strDelete of a key that is not in the tree returns 0 and leaves
\* nodesCount, the root, every node (links, cached heights, payloads) and the
\* set of allocated nodes unchanged.
C8_DeleteAbsent ==
  [][ \A k \in Keys, opts \in DeleteOpts :
        (last'.op = "strDelete" /\ ~KeyInTree(k) /\ strDelete(TRUE, k, opts)) =>
          /\ last'.ret = 0
          /\ fault' = "none"
          /\ UNCHANGED << root, nodesCount, mem, live >>
    ]_vars

\* C9: nodesCount never exceeds maxNodes, and a strInsert called with
\* nodesCount = maxNodes returns 0 and leaves nodesCount and the tree as
\* they were.
C9_Capacity ==
  /\ [](nodesCount <= maxNodes)
  /\ [][ \A a \in InsertArgs :
           (last'.op = "strInsert" /\ nodesCount = maxNodes
              /\ strInsert(a[1], a[2], a[3])) =>
             /\ last'.ret = 0
             /\ UNCHANGED << root, nodesCount, mem, live >>
       ]_vars

\* The tree holds maxNodes nodes and the insert just called returned 0.
C9_Witness ==
  /\ fault = "none" /\ last.op = "strInsert" /\ last.ret = 0
  /\ nodesCount = maxNodes /\ Cardinality(TreeNodes) = maxNodes
  /\ maxNodes >= 2

\* C10: a strInsert whose allocation fails returns 0, leaves nodesCount, the
\* root and the nodes unchanged, and dereferences no absent node.
C10_AllocationFailure ==
  [][ \A k \in Keys :
        (last'.op = "strInsert" /\ ~treeIsFull(nodesCount, maxNodes)
           /\ strInsert(TRUE, k, FALSE)) =>
          /\ last'.ret = 0
          /\ fault' = "none"
          /\ UNCHANGED << root, nodesCount, mem, live >>
    ]_vars

\* C11: strSearch for a key some node holds returns the requested projection
\* (node, key or value) of a node with that key, and for a key no node holds
\* it returns the absent result.
C11_SearchProjection ==
  [][ \A k \in Keys, opts \in SearchOpts :
        (last'.op = "strSearch" /\ strSearch(TRUE, k, opts)) =>
          /\ fault' = "none"
          /\ IF KeyInTree(k)
             THEN /\ ~last'.ret.null
                  /\ \E n \in TreeNodes :
                       /\ mem[n].key = k
                       /\ last'.ret.val = RefOf(opts, projection(mem, n, opts))
             ELSE last'.ret.null
    ]_vars

\* C12: strSearch, strDFS and strBFS called with no flag or with two flags of
\* one axis (projection, order, direction) return the absent result and leave
\* the container as it was.
C12_FlagsRejected ==
  [][ /\ \A k \in Keys, opts \in {0} \cup TwoProjections :
           (last'.op = "strSearch" /\ strSearch(TRUE, k, opts)) =>
             /\ last'.ret.null /\ fault' = "none"
             /\ UNCHANGED << root, nodesCount, maxNodes, mem, live >>
      /\ \A a \in DFSArgs :
           (/\ last'.op = "strDFS"
            /\ a[2] \in {0} \cup TwoOrders \/ a[3] \in {0} \cup TwoProjections
            /\ strDFS(a[1], a[2], a[3], a[4])) =>
             /\ last'.ret.null /\ fault' = "none"
             /\ UNCHANGED << root, nodesCount, maxNodes, mem, live >>
      /\ \A a \in BFSArgs :
           (/\ last'.op = "strBFS"
            /\ a[2] \in {0} \cup TwoDirections \/ a[3] \in {0} \cup TwoProjections
            /\ strBFS(a[1], a[2], a[3], a[4])) =>
             /\ last'.ret.null /\ fault' = "none"
             /\ UNCHANGED << root, nodesCount, maxNodes, mem, live >>
    ]_vars

\* The slots the in-order walk fills under the node projection.
InOrderNodesOut ==
  _strInODFS(mem, root, [ptr |-> 0, out |-> << >>], SEARCH_NODES).out

\* C13: the entries with equal keys appear in the in-order traversal in
\* reverse insertion order: of two such entries the one inserted later (the
\* larger payload stamp) comes first.
C13_DuplicatesReverseOrder ==
  (fault = "none" /\ RootLive) =>
    LET out == InOrderNodesOut
    IN  \A i, j \in DOMAIN out :
          (i < j /\ mem[out[i]].key = mem[out[j]].key) =>
            mem[out[i]].data > mem[out[j]].data

\* A delete has just removed one of four entries with the same key, and a
\* rotation has left one of the three that remain in the right subtree of
\* another.
C13_Witness ==
  /\ fault = "none" /\ RootLive
  /\ last.op = "strDelete" /\ last.ret = 1
  /\ Cardinality(TreeNodes) >= 3
  /\ \A n, m \in TreeNodes : mem[n].key = mem[m].key
  /\ \E n \in TreeNodes : mem[n].rightSon # NULL

\* Nodes of a subtree, in order (node, left, right).
RECURSIVE PreOrder(_, _)
PreOrder(h, n) ==
  IF n = NULL THEN << >>
  ELSE <<n>> \o PreOrder(h, h[n].leftSon) \o PreOrder(h, h[n].rightSon)

\* Nodes of a subtree, in order (left, right, node).
RECURSIVE PostOrder(_, _)
PostOrder(h, n) ==
  IF n = NULL THEN << >>
  ELSE PostOrder(h, h[n].leftSon) \o PostOrder(h, h[n].rightSon) \o <<n>>

\* The reachable nodes in the order a depth-first traversal of the given
\* type is to visit them.
DFSOrder(type) ==
  IF ~RootLive THEN << >>
  ELSE IF type = DFS_PRE_ORDER THEN PreOrder(mem, root)
  ELSE IF type = DFS_IN_ORDER THEN InOrder(mem, root)
  ELSE PostOrder(mem, root)

\* The array arr holds, slot by slot from slot 0, the projection of the
\* nodes of the sequence nodes, and nothing else.
HoldsProjection(arr, nodes, opts) ==
  /\ DOMAIN arr = 0 .. (Len(nodes) - 1)
  /\ \A i \in 1 .. Len(nodes) :
       arr[i - 1] = RefOf(opts, projection(mem, nodes[i], opts))

\* C14: on a container with nodesCount > 0, strDFS with one order and one
\* projection (and its array allocated) returns an array of nodesCount slots
\* that holds the projection of every reachable node once, in pre-order,
\* in-order or post-order as asked, every slot written and none outside
\* written; on a container with nodesCount = 0 it returns the absent result.
C14_DFSOrders ==
  [][ \A type \in DFSTypes, opts \in SearchOpts :
        (last'.op = "strDFS" /\ strDFS(TRUE, type, opts, TRUE)) =>
          /\ fault' = "none"
          /\ IF nodesCount = 0 THEN last'.ret.null
             ELSE /\ ~last'.ret.null
                  /\ Len(DFSOrder(type)) = nodesCount
                  /\ Cardinality(TreeNodes) = nodesCount
                  /\ HoldsProjection(last'.ret.arr, DFSOrder(type), opts)
    ]_vars

\* The nodes of a subtree at depth d below its root, left to right for
\* BFS_LEFT_FIRST and right to left for BFS_RIGHT_FIRST.
RECURSIVE NodesAtDepth(_, _, _, _)
NodesAtDepth(h, n, d, type) ==
  IF n = NULL THEN << >>
  ELSE IF d = 0 THEN <<n>>
  ELSE IF type = BFS_LEFT_FIRST
       THEN NodesAtDepth(h, h[n].leftSon, d - 1, type)
              \o NodesAtDepth(h, h[n].rightSon, d - 1, type)
       ELSE NodesAtDepth(h, h[n].rightSon, d - 1, type)
              \o NodesAtDepth(h, h[n].leftSon, d - 1, type)

RECURSIVE LevelsFrom(_, _, _, _)
LevelsFrom(h, n, d, type) ==
  IF d > RealHeight(h, n) THEN << >>
  ELSE NodesAtDepth(h, n, d, type) \o LevelsFrom(h, n, d + 1, type)

\* The reachable nodes level by level, the root first.
LevelOrder(type) ==
  IF ~RootLive THEN << >> ELSE LevelsFrom(mem, root, 0, type)

\* C15: on a container with nodesCount > 0, strBFS with one direction and one
\* projection (and its array allocated) returns an array of nodesCount slots
\* that holds the projection of every reachable node once, level by level
\* from the root, each level left to right for BFS_LEFT_FIRST and right to
\* left for BFS_RIGHT_FIRST; every slot it reads as the head of the queue
\* holds a node and no son is appended outside the array.
C15_BFSLevelOrder ==
  [][ \A type \in BFSTypes, opts \in SearchOpts :
        (last'.op = "strBFS" /\ nodesCount > 0
           /\ strBFS(TRUE, type, opts, TRUE)) =>
          /\ fault' = "none"
          /\ ~last'.ret.null
          /\ Len(LevelOrder(type)) = nodesCount
          /\ HoldsProjection(last'.ret.arr, LevelOrder(type), opts)
    ]_vars

\* Calls with an absent container and calls with an absent key:
\* <<tree is a container, key>>.
AbsentArgs == { <<FALSE, <<1>>>>, <<TRUE, NULLKEY>> }

\* C16: strInsert, strDelete and strSearch called with an absent key or an
\* absent container return 0, 0 and the absent result, change nothing and
\* read through no absent reference, on an empty tree and on one with nodes.
C16_InvalidInputRejected ==
  [][ \A a \in AbsentArgs :
        /\ (last'.op = "strInsert" /\ strInsert(a[1], a[2], TRUE)) =>
             /\ last'.ret = 0 /\ fault' = "none"
             /\ UNCHANGED << root, nodesCount, maxNodes, mem, live >>
        /\ (last'.op = "strDelete" /\ strDelete(a[1], a[2], 0)) =>
             /\ last'.ret = 0 /\ fault' = "none"
             /\ UNCHANGED << root, nodesCount, maxNodes, mem, live >>
        /\ (last'.op = "strSearch" /\ strSearch(a[1], a[2], SEARCH_DATA)) =>
             /\ last'.ret.null /\ fault' = "none"
             /\ UNCHANGED << root, nodesCount, maxNodes, mem, live >>
    ]_vars

\* C17: deleteStrTree on an absent container returns -1 and releases
\* nothing; on a container it returns 0 having released every node reachable
\* from the root exactly once, each node's key exactly when DELETE_FREE_KEYS
\* is set and each node's value exactly when DELETE_FREE_DATA is set, and
\* then the container.
C17_TeardownReleasesAll ==
  [][ /\ (last'.op = "deleteStrTree" /\ deleteStrTree(FALSE, 0, TRUE)) =>
           /\ last'.ret = 0 - 1 /\ fault' = "none" /\ freed' = << >>
           /\ UNCHANGED << root, nodesCount, maxNodes, mem, live >>
      /\ \A opts \in DestroyOpts, allocOk \in BOOLEAN :
           (last'.op = "deleteStrTree" /\ deleteStrTree(TRUE, opts, allocOk)) =>
             /\ fault' = "none"
             /\ last'.ret = 0
             /\ TreeReleased'
             /\ Len(freed') = Cardinality(TreeNodes)
             /\ { freed'[i].node : i \in DOMAIN freed' } = TreeNodes
             /\ live' = live \ TreeNodes
             /\ \A i \in DOMAIN freed' :
                  /\ freed'[i].key = mem[freed'[i].node].key
                  /\ freed'[i].data = mem[freed'[i].node].data
                  /\ freed'[i].relKey = HasFlag(opts, DELETE_FREE_KEYS)
                  /\ freed'[i].relData = HasFlag(opts, DELETE_FREE_DATA)
    ]_vars

\* C18: after a strDelete that removed a node, every node left in the tree
\* whose left or right child is not the one it had before has been visited by
\* the walk: its cached height is 1 + the larger cached height of its
\* children (an absent child: -1); so too when the located node had exactly
\* one child.
C18_DeleteWalkCoversChanged ==
  [][ (last'.op = "strDelete" /\ last'.ret = 1) =>
        \A n \in TreeNodes' :
          (mem'[n].leftSon # mem[n].leftSon \/ mem'[n].rightSon # mem[n].rightSon) =>
            mem'[n].height = 1 + MAX(_strHeight(mem', mem'[n].leftSon),
                                     _strHeight(mem', mem'[n].rightSon))
    ]_vars

\* The proper ancestors of a node.
RECURSIVE Ancestors(_, _)
Ancestors(h, n) ==
  IF n = NULL \/ h[n].father = NULL THEN {}
  ELSE {h[n].father} \cup Ancestors(h, h[n].father)

\* The cached height of n is 1 + the larger cached height of its children.
LocalHeightOK(h, n) ==
  h[n].height = 1 + MAX(_strHeight(h, h[n].leftSon), _strHeight(h, h[n].rightSon))

Links(h, n) == << h[n].father, h[n].leftSon, h[n].rightSon >>

\* The keys of a subtree, in order.
InOrderKeys(h, n) == [ i \in 1 .. Len(InOrder(h, n)) |-> h[InOrder(h, n)[i]].key ]

\* The tree is what inserting k1 then k2 into an empty tree leaves.
TreeOfTwo(k1, k2) ==
  /\ RootLive /\ nodesCount = 2 /\ Cardinality(TreeNodes) = 2
  /\ mem[root].key = k1 /\ mem[root].height = 1
  /\ LET son == IF strcmp(k1, k2) >= 0 THEN mem[root].leftSon
                ELSE mem[root].rightSon
     IN  son # NULL /\ mem[son].key = k2 /\ mem[son].height = 0

\* C19, for the strInsert of key k that links a new leaf under a tree: the
\* links change nowhere but in the subtree of the one node the walk stops at,
\* none change when it stops nowhere, that node keeps its father, and every
\* ancestor above it (above the new leaf, when the walk stops nowhere) has a
\* cached height that needs no update.
C19_AtMostOnce(k) ==
  LET newNode == malloc
      h1 == linkNewNode([mem EXCEPT ![newNode] = _createStrNode(k, nextData)],
                        root, newNode, k)
      stop == rotatePointFrom(h1, h1[newNode].father)
  IN  /\ stop.node = NULL => \A n \in NodeIds : Links(mem', n) = Links(h1, n)
      /\ stop.node # NULL =>
           /\ \A n \in NodeIds \ SubtreeNodes(h1, stop.node) :
                Links(mem', n) = Links(h1, n)
           /\ mem'[stop.node].father = h1[stop.node].father
      /\ \A a \in Ancestors(mem', IF stop.node = NULL THEN newNode ELSE stop.node) :
           LocalHeightOK(mem', a)

\* C19, the two scenarios on keys k1 < k2 < k3: the third insert of k1, k2, k3
\* makes one rotation, a left rotation at the root, and leaves k2 at the root
\* and the keys in order; the third insert of k2, k1, k3 makes no rotation,
\* and neither does the second insert of either scenario.
C19_Scenarios(k1, k2, k3) ==
  LET newNode == malloc
      linked(k) == linkNewNode([mem EXCEPT ![newNode] = _createStrNode(k, nextData)],
                               root, newNode, k)
      stop(k) == rotatePointFrom(linked(k), linked(k)[newNode].father)
      made(k) == IF stop(k).node = NULL THEN << >>
                 ELSE rotations(stop(k).heap, stop(k).node)
  IN  /\ (TreeOfTwo(k1, k2) /\ strInsert(TRUE, k3, TRUE)) =>
           /\ made(k3) = << <<"left", root>> >>
           /\ mem' = _strLeftRotation(stop(k3).heap, root)
           /\ mem'[root'].key = k2
           /\ InOrderKeys(mem', root') = << k1, k2, k3 >>
      /\ (TreeOfTwo(k2, k1) /\ strInsert(TRUE, k3, TRUE)) =>
           /\ made(k3) = << >>
           /\ mem'[root'].key = k2
           /\ InOrderKeys(mem', root') = << k1, k2, k3 >>
           /\ \A n \in NodeIds : Links(mem', n) = Links(linked(k3), n)
      /\ \A first \in {k1, k2}, second \in {k1, k2} :
           (/\ first # second
            /\ RootLive /\ nodesCount = 1 /\ Cardinality(TreeNodes) = 1
            /\ mem[root].key = first /\ mem[root].height = 0
            /\ strInsert(TRUE, second, TRUE)) =>
             made(second) = << >> /\ TreeOfTwo(first, second)'

\* C19: each strInsert that links a new leaf calls _strRotate at most once,
\* at the lowest ancestor of the leaf whose balance factor is 2 or more in
\* absolute value, and leaves nothing to update above it; inserting three
\* keys in ascending order into an empty tree makes exactly one rotation, a
\* left rotation at the third insert, and leaves the middle key at the root,
\* while inserting the middle key first makes none.
C19_InsertRotatesOnce ==
  [][ /\ \A k \in Keys :
           (last'.op = "strInsert" /\ last'.ret \notin {0, NoRet} /\ RootLive
              /\ strInsert(TRUE, k, TRUE)) => C19_AtMostOnce(k)
      /\ \A k1, k2, k3 \in Keys :
           (/\ last'.op = "strInsert" /\ last'.ret \notin {0, NoRet}
            /\ strcmp(k1, k2) < 0 /\ strcmp(k2, k3) < 0) =>
             C19_Scenarios(k1, k2, k3)
    ]_vars

\* The three keys have been inserted in ascending order into an empty tree
\* and nothing else has been done: the root node, created first, now holds
\* the middle key with the second payload.
C19_Witness ==
  /\ fault = "none" /\ last.op = "strInsert" /\ last.ret = 3
  /\ RootLive /\ nodesCount = 3 /\ nextData = 4
  /\ InOrderKeys(mem, root) = << <<1>>, <<1, 2>>, <<2>> >>
  /\ mem[root].key = <<1, 2>> /\ mem[root].data = 2
  /\ mem[mem[root].leftSon].data = 1 /\ mem[mem[root].rightSon].data = 3

\* A subtree as a value: << left, << key, data >>, right >>, << >> when absent.
RECURSIVE Shape(_, _)
Shape(h, n) ==
  IF n = NULL THEN << >>
  ELSE << Shape(h, h[n].leftSon), << h[n].key, h[n].data >>,
          Shape(h, h[n].rightSon) >>

\* The classical rotations on such a value: the left (right) child is lifted
\* to the top and the former top becomes its right (left) child.
ClassicalRight(t) == << t[1][1], t[1][2], << t[1][3], t[2], t[3] >> >>
ClassicalLeft(t) == << << t[1], t[2], t[3][1] >>, t[3][2], t[3][3] >>

\* The (key, data) payloads of a subtree, in order.
InOrderPayloads(h, n) ==
  [ i \in 1 .. Len(InOrder(h, n)) |->
      << h[InOrder(h, n)[i]].key, h[InOrder(h, n)[i]].data >> ]

\* What C20 says of the heap after that a rotation at n leaves of the heap
\* before, lowered being the child of n the former top payload has gone to.
RotationIsClassical(before, after, n, lowered, classical) ==
  /\ after[n].father = before[n].father
  /\ \A m \in NodeIds \ SubtreeNodes(before, n) : after[m] = before[m]
  /\ SubtreeNodes(after, n) = SubtreeNodes(before, n)
  /\ InOrderPayloads(after, n) = InOrderPayloads(before, n)
  /\ Shape(after, n) = classical
  /\ lowered # NULL
  /\ LocalHeightOK(after, lowered) /\ LocalHeightOK(after, n)
  /\ (\A m \in SubtreeNodes(before, n) : before[m].height = RealHeight(before, m)) =>
       /\ after[lowered].height = RealHeight(after, lowered)
       /\ after[n].height = RealHeight(after, n)

\* C20: _strRightRotation at any node n of the tree that has a left child,
\* and _strLeftRotation at any n that has a right child, keep n and its link
\* from its father, touch no node outside n's subtree, keep the nodes of the
\* subtree and the in-order sequence of their payloads, leave the subtree
\* with the shape and payload placement of the classical rotation, and leave
\* the lowered node and n with correct cached heights.
C20_RotationEquivalence ==
  fault = "none" =>
    \A n \in TreeNodes :
      /\ mem[n].leftSon # NULL =>
           LET after == _strRightRotation(mem, n)
           IN  RotationIsClassical(mem, after, n, after[n].rightSon,
                                   ClassicalRight(Shape(mem, n)))
      /\ mem[n].rightSon # NULL =>
           LET after == _strLeftRotation(mem, n)
           IN  RotationIsClassical(mem, after, n, after[n].leftSon,
                                   ClassicalLeft(Shape(mem, n)))

\* Some node of the tree has a left child with two children and a right
\* child, so that a right rotation there moves four subtrees, and a rotation
\* has acted before: some node's right child holds the node's own key.
C20_Witness ==
  /\ fault = "none" /\ RootLive
  /\ \E n \in TreeNodes :
       /\ mem[n].leftSon # NULL /\ mem[n].rightSon # NULL
       /\ mem[mem[n].leftSon].leftSon # NULL
       /\ mem[mem[n].leftSon].rightSon # NULL
  /\ \E n \in TreeNodes :
       mem[n].rightSon # NULL /\ mem[mem[n].rightSon].key = mem[n].key

\* The balance factors of 2 or more in absolute value that the strInsert of
\* key k, linking a new leaf, hands to _strRotate.
InsertFactors(k) ==
  LET newNode == malloc
      h1 == linkNewNode([mem EXCEPT ![newNode] = _createStrNode(k, nextData)],
                        root, newNode, k)
      stop == rotatePointFrom(h1, h1[newNode].father)
  IN  IF stop.node = NULL THEN {}
      ELSE { _strBalanceFactor(stop.heap, stop.node) }

\* The same for the strDelete of key k, which some node holds.
DeleteFactors(k) ==
  LET toDelete == _searchStrNode(mem, root, k)
      oneSon == mem[toDelete].leftSon = NULL \/ mem[toDelete].rightSon = NULL
      maxLeft == _strMaxKeySon(mem, mem[toDelete].leftSon)
      h == IF oneSon THEN mem ELSE _strSwapInfo(mem, toDelete, maxLeft)
      node == IF oneSon THEN toDelete ELSE maxLeft
  IN  balanceDeleteFactors(cutOneSonDetached(h, node), h[node].father)

\* C21: every balance factor of 2 or more in absolute value that
\* _strBalanceInsert or _strBalanceDelete finds at an ancestor is exactly 2 or
\* -2, so that _strRotate rotates there and never falls through.
C21_FactorExactlyTwo ==
  [][ \A k \in LongKeys :
        /\ (last'.op = "strInsert" /\ last'.ret \notin {0, NoRet} /\ RootLive
              /\ strInsert(TRUE, k, TRUE)) => InsertFactors(k) \subseteq {2, 0 - 2}
        /\ (last'.op = "strDelete" /\ last'.ret = 1 /\ strDelete(TRUE, k, 0)) =>
             DeleteFactors(k) \subseteq {2, 0 - 2}
    ]_vars

\* The allocated nodes that hold a reference to node n, as a child or as
\* their father.
ReferringNodes(n) ==
  { m \in live : n \in { mem[m].leftSon, mem[m].rightSon, mem[m].father } }

\* Parent and child references of the allocated nodes agree: the root has no
\* father, a child's father is the node that links to it, and a node's father
\* links to it as its left or its right child.
ParentLinksAgree ==
  /\ root # NULL => root \in live /\ mem[root].father = NULL
  /\ \A n \in live :
       /\ \A son \in { mem[n].leftSon, mem[n].rightSon } \ {NULL} :
            son \in live /\ mem[son].father = n
       /\ mem[n].father # NULL =>
            /\ mem[n].father \in live
            /\ n \in { mem[mem[n].father].leftSon, mem[mem[n].father].rightSon }
       /\ mem[n].father = NULL => n = root

\* C22: after every completed insert or delete the root has no father, every
\* child's father is exactly the node that links to it as left or right
\* child, and the node a delete has freed is referenced by no remaining node
\* and is not the root.
C22_NoDanglingReference ==
  Completed =>
    /\ ParentLinksAgree
    /\ (last.op = "strDelete" /\ last.ret = 1) =>
         /\ freed.node \notin live
         /\ ReferringNodes(freed.node) = {}
         /\ root # freed.node

\* C23: the root reference is assigned only by a strInsert into a tree with
\* no root and by the strDelete that brings nodesCount to 0; a call that
\* leaves nodesCount above 0 in a tree that had a root keeps the same node as
\* the root and does not free it, whatever it rotates or deletes.
C23_RootObjectStable ==
  [][ fault' = "none" =>
        /\ root' # root =>
             \/ last'.op = "strInsert" /\ root = NULL /\ nodesCount' = nodesCount + 1
             \/ last'.op = "strDelete" /\ nodesCount' = 0 /\ root' = NULL
        /\ (root # NULL /\ nodesCount' > 0) => (root' = root /\ root \in live')
    ]_vars

====
